---- MODULE Spec2Model ----
(***************************************************************************)
(* The graphqlHTTP request handler of src/index.js as a state machine.     *)
(*                                                                         *)
(* One middleware is constructed from `options`; every request it handles  *)
(* runs the promise chain of lines 68-181:                                 *)
(*   promise executor -> parseBody callback -> then stage -> (execute      *)
(*   settles) -> catch stage -> response stage.                            *)
(* Each callback of the chain is one action: JavaScript runs a callback to *)
(* completion, and the chain suspends only between callbacks.              *)
(*                                                                         *)
(* JavaScript values are records [type, val]; the collaborators that are   *)
(* imported from other packages (parseBody, accepts, parse, validate,      *)
(* getOperationAST, execute) are inputs: their results are drawn from the  *)
(* small sets below.                                                       *)
(***************************************************************************)
EXTENDS Naturals, Sequences, FiniteSets, TLC

VARIABLES
    options,   \* the argument of graphqlHTTP(options)
    mw,        \* the middleware: "new", "ready" (handler returned), "threw"
    req,       \* req[r]: the incoming message of request r
    pc,        \* pc[r]: where the promise chain of request r stands
    scope,     \* scope[Scope(r)]: the `let` variables of lines 57-64
    data,      \* data[r]: the value the first promise resolved with
    error,     \* error[r]: the rejection travelling to the catch stage
    result,    \* result[r]: the value handed to the response stage
    res,       \* res[r]: the server response
    calls      \* calls[r]: the collaborator calls made so far, in order

vars == <<options, mw, req, pc, scope, data, error, result, res, calls>>

----------------------------------------------------------------------------
(* Bounds *)

\* the validator returns between 0 and MaxValidationErrors errors
MaxValidationErrors == 2

Reqs == {1, 2}

----------------------------------------------------------------------------
(* JavaScript values *)

Undefined == [type |-> "undefined", val |-> ""]
Null      == [type |-> "null", val |-> ""]
Str(s)    == [type |-> "string", val |-> s]
Obj(o)    == [type |-> "object", val |-> o]
True      == [type |-> "boolean", val |-> "true"]
False     == [type |-> "boolean", val |-> "false"]
Function  == [type |-> "function", val |-> ""]

\* ToBoolean: undefined, null, false and '' are falsy
Truthy(v) ==
    CASE v.type = "undefined" -> FALSE
      [] v.type = "null"      -> FALSE
      [] v.type = "boolean"   -> v.val = "true"
      [] v.type = "string"    -> v.val # ""
      [] OTHER                -> TRUE

\* a || b and a && b
Or(a, b)  == IF Truthy(a) THEN a ELSE b
And(a, b) == IF Truthy(a) THEN b ELSE a

\* JSON.parse on the texts the model uses: two texts of one object, and every
\* other text (the empty one included) is a syntax error
JsonTexts == {"{\"id\":1}", "{ \"id\": 1 }", "{\"id\":2}"}

JSONParse(text) ==
    CASE text = "{\"id\":1}"   -> [threw |-> FALSE, value |-> Obj("id=1")]
      [] text = "{ \"id\": 1 }" -> [threw |-> FALSE, value |-> Obj("id=1")]
      [] text = "{\"id\":2}"   -> [threw |-> FALSE, value |-> Obj("id=2")]
      [] OTHER                 -> [threw |-> TRUE, value |-> Undefined]

----------------------------------------------------------------------------
(* Errors and results *)

\* an Error object: `status` 0 stands for no status property
Err(msg, st) == [message |-> msg, status |-> st, formatted |-> FALSE]

\* httpError(status, message)
HttpError(st, msg) == Err(msg, st)

\* formatError keeps the message (and locations), and nothing else
FormatError(e) == [message |-> e.message, status |-> 0, formatted |-> TRUE]

\* the value `null`, and the objects { errors } and { data, errors? }
NullResult == [isNull |-> TRUE, hasData |-> FALSE, data |-> "",
               hasErrors |-> FALSE, errors |-> <<>>]
ErrorsResult(errs) == [isNull |-> FALSE, hasData |-> FALSE, data |-> "",
                       hasErrors |-> TRUE, errors |-> errs]
DataResult(d, errs) == [isNull |-> FALSE, hasData |-> TRUE, data |-> d,
                        hasErrors |-> errs # <<>>, errors |-> errs]

\* no value yet
NoError  == Err(<<>>, 0)
NoResult == [isNull |-> FALSE, hasData |-> FALSE, data |-> "",
             hasErrors |-> FALSE, errors |-> <<>>]

----------------------------------------------------------------------------
(* Options: lines 26-47 and getOptions, lines 189-205 *)

\* an options value; a value that is no object has no properties
OptionsObj(schema, rootValue, pretty, graphiql) ==
    [type |-> "object", val |-> "options", schema |-> schema,
     rootValue |-> rootValue, pretty |-> pretty, graphiql |-> graphiql]
NonObject(v) ==
    [type |-> v.type, val |-> v.val, schema |-> Undefined,
     rootValue |-> Undefined, pretty |-> Undefined, graphiql |-> Undefined]

Schema == Obj("schema")

ValidOptions ==
    { OptionsObj(Schema, Obj("root"), True, False),
      OptionsObj(Schema, Obj("root"), False, Undefined),
      OptionsObj(Schema, Undefined, Undefined, True) }
InvalidOptions ==
    { NonObject(Null), NonObject(Str("schema.graphql")),
      OptionsObj(Undefined, Undefined, Undefined, True) }
OptionsData == ValidOptions \cup InvalidOptions

\* what graphqlHTTP may be given: an options value, or a function of the request
OptionsArgs == OptionsData \cup {NonObject(Function)}

\* getOptions, after `options(req)` returned `optionsData`
GetOptionsNoSchemaCheck(optionsData) ==
    IF ~Truthy(optionsData) \/ optionsData.type # "object"
    THEN [threw |-> TRUE, value |-> optionsData,
          error |-> Err(<<"GraphQL middleware option function must return an options object.">>, 0)]
    ELSE [threw |-> FALSE, value |-> optionsData, error |-> NoError]

GetOptions(optionsData) ==
    IF ~Truthy(optionsData) \/ optionsData.type # "object"
    THEN [threw |-> TRUE, value |-> optionsData,
          error |-> Err(<<"GraphQL middleware option function must return an options object.">>, 0)]
    ELSE IF ~Truthy(optionsData.schema)
    THEN [threw |-> TRUE, value |-> optionsData,
          error |-> Err(<<"GraphQL middleware options must contain a schema.">>, 0)]
    ELSE [threw |-> FALSE, value |-> optionsData, error |-> NoError]

----------------------------------------------------------------------------
(* Requests and decoded bodies *)

Params(query, variables, operationName, raw) ==
    [query |-> query, variables |-> variables,
     operationName |-> operationName, raw |-> raw]

\* `data || {}`: an empty object has none of the properties
EmptyObject == Params(Undefined, Undefined, Undefined, Undefined)

Request(method, query, prefers) ==
    [method |-> method, query |-> query, prefers |-> prefers]

\* the answer of accepts(req).types(['json', 'html']) to the Accept header
Preferences == {"html", "json", "false"}

Methods == {"GET", "POST", "PUT"}

----------------------------------------------------------------------------
(* getGraphQLParams, lines 216-234 *)

InvalidVariables == HttpError(400, <<"Variables are invalid JSON.">>)

GetGraphQLParamsBodyFirst(rq, d) ==
    LET query == Or(d.query, rq.query.query)
        given == Or(d.variables, rq.query.variables)
        mustParse == Truthy(given) /\ given.type = "string"
        parsed == JSONParse(given.val)
        operationName == Or(d.operationName, rq.query.operationName)
    IN  IF mustParse /\ parsed.threw
        THEN [threw |-> TRUE, error |-> InvalidVariables, query |-> query,
              variables |-> given, operationName |-> Undefined]
        ELSE [threw |-> FALSE, error |-> NoError, query |-> query,
              variables |-> IF mustParse THEN parsed.value ELSE given,
              operationName |-> operationName]

GetGraphQLParamsNoParse(rq, d) ==
    [threw |-> FALSE, error |-> NoError,
     query |-> Or(rq.query.query, d.query),
     variables |-> Or(rq.query.variables, d.variables),
     operationName |-> Or(rq.query.operationName, d.operationName)]

GetGraphQLParams(rq, d) ==
    LET query == Or(rq.query.query, d.query)
        given == Or(rq.query.variables, d.variables)
        mustParse == Truthy(given) /\ given.type = "string"
        parsed == JSONParse(given.val)
        operationName == Or(rq.query.operationName, d.operationName)
    IN  IF mustParse /\ parsed.threw
        THEN [threw |-> TRUE, error |-> InvalidVariables, query |-> query,
              variables |-> given, operationName |-> Undefined]
        ELSE [threw |-> FALSE, error |-> NoError, query |-> query,
              variables |-> IF mustParse THEN parsed.value ELSE given,
              operationName |-> operationName]

----------------------------------------------------------------------------
(* canDisplayGraphiQL, lines 239-246 *)

CanDisplayGraphiQLWhenJson(rq, d) ==
    LET raw == rq.query.raw # Undefined \/ d.raw # Undefined
    IN  IF ~raw /\ rq.prefers = "json" THEN True ELSE False

CanDisplayGraphiQLIgnoringRaw(rq, d) ==
    IF rq.prefers = "html" THEN True ELSE False

CanDisplayGraphiQL(rq, d) ==
    LET raw == rq.query.raw # Undefined \/ d.raw # Undefined
    IN  IF ~raw /\ rq.prefers = "html" THEN True ELSE False

----------------------------------------------------------------------------
(* The server response *)

NoBody == [type |-> "none", isNull |-> FALSE, hasData |-> FALSE, data |-> "",
           errors |-> <<>>, indent |-> 0,
           query |-> Undefined, variables |-> Undefined]

\* a fresh ServerResponse: statusCode is 200 until assigned
NewResponse ==
    [statusCode |-> 200, allow |-> "", contentType |-> "",
     ended |-> FALSE, body |-> NoBody, writes |-> <<>>]

SetStatus(rs, code) ==
    [rs EXCEPT !.statusCode = code, !.writes = Append(@, "statusCode")]

SetHeader(rs, name, value) ==
    IF name = "Allow"
    THEN [rs EXCEPT !.allow = value, !.writes = Append(@, "setHeader Allow")]
    ELSE [rs EXCEPT !.contentType = value,
                    !.writes = Append(@, "setHeader content-type")]

End(rs, body) ==
    [rs EXCEPT !.ended = TRUE, !.body = body, !.writes = Append(@, "end")]

Messages(errs) == [i \in DOMAIN errs |-> errs[i].message]

\* JSON.stringify(result, null, indent): null is the text null; an object
\* gives its data and, of each error, what formatError kept
Stringify(rslt, indent) ==
    [type |-> "json", isNull |-> rslt.isNull, hasData |-> rslt.hasData,
     data |-> rslt.data,
     errors |-> IF rslt.hasErrors THEN Messages(rslt.errors) ELSE <<>>,
     indent |-> indent, query |-> Undefined, variables |-> Undefined]

\* renderGraphiQL({ query, variables, result }): the page embeds all three
RenderGraphiQL(query, variables, rslt) ==
    [type |-> "html", isNull |-> rslt.isNull, hasData |-> rslt.hasData,
     data |-> rslt.data,
     errors |-> IF rslt.hasErrors THEN Messages(rslt.errors) ELSE <<>>,
     indent |-> 0, query |-> query, variables |-> variables]

----------------------------------------------------------------------------
(* The handler's variables, lines 54-64 *)

\* `let` without an initialiser: every variable starts undefined
FreshScope ==
    [schema |-> Undefined, rootValue |-> Undefined, pretty |-> Undefined,
     graphiql |-> Undefined, showGraphiQL |-> Undefined, query |-> Undefined,
     variables |-> Undefined, operationName |-> Undefined]

\* the variables declared outside the handler: one set for all invocations
ScopeShared(r) == 1

\* the variables are declared inside the handler: one set per invocation
Scope(r) == r

----------------------------------------------------------------------------
(* Collaborator calls and their outcomes *)

Call(fn, sc, ret) ==
    [fn |-> fn, query |-> sc.query, variables |-> sc.variables,
     operationName |-> sc.operationName, ret |-> ret]

\* parseBody: an error (with or without a status), or the decoded body
ParseErrors ==
    { HttpError(400, <<"POST body sent invalid JSON.">>),
      Err(<<"request aborted">>, 0) }

BodyQueries        == {Undefined, Str("{ body }")}
BodyVariables      == {Undefined, Str("{\"id\""), Obj("id=3")}
BodyOperationNames == {Undefined, Str("BodyOp")}
BodyRaws           == {Undefined, True}
Bodies ==
    { Params(q, v, o, w) : q \in BodyQueries, v \in BodyVariables,
                           o \in BodyOperationNames, w \in BodyRaws }

\* parse: a document, or a thrown syntax error
SyntaxOutcomes == {"document", "syntaxError"}
SyntaxError == Err(<<"Syntax Error GraphQL request (1:1)">>, 0)

\* validate: a list of errors
ValidationErrors(n) == [i \in 1..n |-> Err(<<"Validation error", ToString(i)>>, 0)]

\* getOperationAST: null, or the operation and its kind
Operations == {"null", "query", "mutation", "subscription"}

\* execute: a thrown context error, or a promise
ExecuteOutcomes == {"contextError", "promise"}
ContextError == Err(<<"Must provide an operation.">>, 0)

\* what the promise of execute settles to
Executions ==
    { [rejected |-> FALSE, value |-> DataResult("world", <<>>), error |-> NoError],
      [rejected |-> FALSE, error |-> NoError,
       value |-> DataResult("null", <<Err(<<"Cannot resolve field.">>, 0)>>)],
      [rejected |-> TRUE, value |-> NoResult, error |-> Err(<<"resolver crashed">>, 0)],
      [rejected |-> TRUE, value |-> NoResult,
       error |-> HttpError(503, <<"Service Unavailable">>)] }

----------------------------------------------------------------------------
(* The then stage, lines 87-161, as a function of what the collaborators answer *)

Return(sc, rs, cs, rslt) ==
    [kind |-> "return", scope |-> sc, res |-> rs, calls |-> cs,
     result |-> rslt, error |-> NoError]
Throw(sc, rs, cs, err) ==
    [kind |-> "throw", scope |-> sc, res |-> rs, calls |-> cs,
     result |-> NoResult, error |-> err]
Pending(sc, rs, cs) ==
    [kind |-> "promise", scope |-> sc, res |-> rs, calls |-> cs,
     result |-> NoResult, error |-> NoError]

MissingQueryAsServerError == HttpError(500, <<"Must provide query string.">>)

MissingQuery == HttpError(400, <<"Must provide query string.">>)

OperationNotAllowedAsBadRequest(kind) ==
    HttpError(400, <<"Can only perform a ", kind, " operation from a POST request.">>)

\* lines 140-144
OperationNotAllowed(kind) ==
    HttpError(405, <<"Can only perform a ", kind, " operation from a POST request.">>)

\* the context error is reported and thrown again
ExecuteRethrows(sc, rs, cs, ex) ==
    IF ex = "contextError"
    THEN Throw(sc, SetStatus(rs, 400), Append(cs, Call("execute", sc, ex)),
               ContextError)
    ELSE Pending(sc, rs, Append(cs, Call("execute", sc, ex)))

\* the context error is reported as a server error
ExecuteContextErrorAsServerError(sc, rs, cs, ex) ==
    IF ex = "contextError"
    THEN Return(sc, SetStatus(rs, 500), Append(cs, Call("execute", sc, ex)),
                ErrorsResult(<<ContextError>>))
    ELSE Pending(sc, rs, Append(cs, Call("execute", sc, ex)))

\* lines 148-161
Execute(sc, rs, cs, ex) ==
    IF ex = "contextError"
    THEN Return(sc, SetStatus(rs, 400), Append(cs, Call("execute", sc, ex)),
                ErrorsResult(<<ContextError>>))
    ELSE Pending(sc, rs, Append(cs, Call("execute", sc, ex)))

\* the operation is executed when the page will be shown
CheckOperationExecutesForPage(method, sc, rs, cs, op, ex) ==
    IF method = "GET"
    THEN LET cs1 == Append(cs, Call("getOperationAST", sc, op))
         IN  IF op # "null" /\ op # "query" /\ ~Truthy(sc.showGraphiQL)
             THEN Throw(sc, SetHeader(rs, "Allow", "POST"), cs1,
                        OperationNotAllowed(op))
             ELSE Execute(sc, rs, cs1, ex)
    ELSE Execute(sc, rs, cs, ex)

\* the Allow header is set before showGraphiQL is looked at
CheckOperationAllowFirst(method, sc, rs, cs, op, ex) ==
    IF method = "GET"
    THEN LET cs1 == Append(cs, Call("getOperationAST", sc, op))
             rs1 == SetHeader(rs, "Allow", "POST")
         IN  IF op # "null" /\ op # "query"
             THEN IF Truthy(sc.showGraphiQL)
                  THEN Return(sc, rs1, cs1, NullResult)
                  ELSE Throw(sc, rs1, cs1, OperationNotAllowed(op))
             ELSE Execute(sc, rs, cs1, ex)
    ELSE Execute(sc, rs, cs, ex)

\* lines 126-146
CheckOperation(method, sc, rs, cs, op, ex) ==
    IF method = "GET"
    THEN LET cs1 == Append(cs, Call("getOperationAST", sc, op))
         IN  IF op # "null" /\ op # "query"
             THEN IF Truthy(sc.showGraphiQL)
                  THEN Return(sc, rs, cs1, NullResult)
                  ELSE Throw(sc, SetHeader(rs, "Allow", "POST"), cs1,
                             OperationNotAllowed(op))
             ELSE Execute(sc, rs, cs1, ex)
    ELSE Execute(sc, rs, cs, ex)

\* the document is validated before the syntax error is looked at
ParseAndValidateThenReport(method, sc, rs, cs, syn, nval, op, ex) ==
    LET cs1 == Append(cs, Call("parse", sc, syn))
        cs2 == Append(cs1, Call("validate", sc, ToString(nval)))
    IN  IF syn = "syntaxError"
        THEN Return(sc, SetStatus(rs, 400), cs2, ErrorsResult(<<SyntaxError>>))
        ELSE IF nval > 0
        THEN Return(sc, SetStatus(rs, 400), cs2, ErrorsResult(ValidationErrors(nval)))
        ELSE CheckOperation(method, sc, rs, cs2, op, ex)

\* lines 105-124
ParseAndValidate(method, sc, rs, cs, syn, nval, op, ex) ==
    LET cs1 == Append(cs, Call("parse", sc, syn))
        cs2 == Append(cs1, Call("validate", sc, ToString(nval)))
    IN  IF syn = "syntaxError"
        THEN Return(sc, SetStatus(rs, 400), cs1, ErrorsResult(<<SyntaxError>>))
        ELSE IF nval > 0
        THEN Return(sc, SetStatus(rs, 400), cs2, ErrorsResult(ValidationErrors(nval)))
        ELSE CheckOperation(method, sc, rs, cs2, op, ex)

\* a missing query gives no result, whether or not the page is shown
ThenStageNullOnMissingQuery(rq, d, sc, rs, cs, syn, nval, op, ex) ==
    LET sc1 == [sc EXCEPT !.showGraphiQL = And(sc.graphiql, CanDisplayGraphiQL(rq, d))]
        params == GetGraphQLParams(rq, d)
        sc2 == [sc1 EXCEPT !.query = params.query, !.variables = params.variables,
                           !.operationName = params.operationName]
    IN  IF params.threw
        THEN Throw(sc1, rs, cs, params.error)
        ELSE IF ~Truthy(sc2.query)
        THEN Return(sc2, rs, cs, NullResult)
        ELSE ParseAndValidate(rq.method, sc2, rs, cs, syn, nval, op, ex)

\* lines 88-103
ThenStage(rq, d, sc, rs, cs, syn, nval, op, ex) ==
    LET sc1 == [sc EXCEPT !.showGraphiQL = And(sc.graphiql, CanDisplayGraphiQL(rq, d))]
        params == GetGraphQLParams(rq, d)
        sc2 == [sc1 EXCEPT !.query = params.query, !.variables = params.variables,
                           !.operationName = params.operationName]
    IN  IF params.threw
        THEN Throw(sc1, rs, cs, params.error)
        ELSE IF ~Truthy(sc2.query)
        THEN IF Truthy(sc2.showGraphiQL)
             THEN Return(sc2, rs, cs, NullResult)
             ELSE Throw(sc2, rs, cs, MissingQuery)
        ELSE ParseAndValidate(rq.method, sc2, rs, cs, syn, nval, op, ex)

----------------------------------------------------------------------------
(* The catch stage, lines 162-166, and the response stage, lines 166-181 *)

\* no fallback to 500
CatchStageNoDefault(rs, err) ==
    [res |-> SetStatus(rs, err.status), result |-> ErrorsResult(<<err>>)]

CatchStage(rs, err) ==
    [res |-> SetStatus(rs, IF err.status # 0 THEN err.status ELSE 500),
     result |-> ErrorsResult(<<err>>)]

\* lines 168-170
FormatErrors(rslt) ==
    IF ~rslt.isNull /\ rslt.hasErrors
    THEN [rslt EXCEPT !.errors = [i \in DOMAIN rslt.errors |-> FormatError(rslt.errors[i])]]
    ELSE rslt

\* the page is rendered and never sent
RespondPageNotSent(sc, rs, rslt) ==
    IF Truthy(sc.showGraphiQL)
    THEN SetHeader(rs, "content-type", "text/html")
    ELSE End(SetHeader(rs, "content-type", "application/json"),
             Stringify(rslt, IF Truthy(sc.pretty) THEN 2 ELSE 0))

\* the page is never shown
RespondAlwaysJson(sc, rs, rslt) ==
    End(SetHeader(rs, "content-type", "application/json"),
        Stringify(rslt, IF Truthy(sc.pretty) THEN 2 ELSE 0))

\* lines 172-180
Respond(sc, rs, rslt) ==
    IF Truthy(sc.showGraphiQL)
    THEN End(SetHeader(rs, "content-type", "text/html"),
             RenderGraphiQL(sc.query, sc.variables, rslt))
    ELSE End(SetHeader(rs, "content-type", "application/json"),
             Stringify(rslt, IF Truthy(sc.pretty) THEN 2 ELSE 0))

----------------------------------------------------------------------------
(* The state machine *)

\* the parsed query-strings of the requests
UrlQueries        == {Undefined, Str("{ url }")}
UrlVariables      == {Undefined, Str(""), Str("{ \"id\": 1 }"), Str("{id")}
UrlOperationNames == {Undefined}
UrlRaws           == {Undefined, Str("")}
Urls ==
    { Params(q, v, o, w) : q \in UrlQueries, v \in UrlVariables,
                           o \in UrlOperationNames, w \in UrlRaws }

Requests == { Request(m, u, a) : m \in Methods, u \in Urls, a \in Preferences }

\* a request that never arrives
NoRequest == Request("GET", EmptyObject, "false")

InitFor(arriving) ==
    /\ options \in OptionsArgs
    /\ mw = "new"
    /\ req \in [Reqs -> Requests \cup {NoRequest}]
    /\ \A r \in Reqs : r \notin arriving => req[r] = NoRequest
    /\ pc = [r \in Reqs |-> "idle"]
    /\ scope = [r \in Reqs |-> FreshScope]
    /\ data = [r \in Reqs |-> EmptyObject]
    /\ error = [r \in Reqs |-> NoError]
    /\ result = [r \in Reqs |-> NoResult]
    /\ res = [r \in Reqs |-> NewResponse]
    /\ calls = [r \in Reqs |-> <<>>]

\* graphqlHTTP(options), lines 49-54
Construct ==
    /\ mw = "new"
    /\ mw' = IF ~Truthy(options) THEN "threw" ELSE "ready"
    /\ UNCHANGED <<options, req, pc, scope, data, error, result, res, calls>>

MethodNotAllowedAsBadRequest == HttpError(400, <<"GraphQL only supports GET and POST requests.">>)

MethodNotAllowed == HttpError(405, <<"GraphQL only supports GET and POST requests.">>)

\* the promise executor, lines 68-86
Handle(r) ==
    /\ mw = "ready"
    /\ pc[r] = "idle"
    /\ \E returned \in OptionsData :
         LET got == GetOptions(IF options.type = "function" THEN returned ELSE options)
             sc == [scope[Scope(r)] EXCEPT !.schema = got.value.schema,
                                           !.rootValue = got.value.rootValue,
                                           !.pretty = got.value.pretty,
                                           !.graphiql = got.value.graphiql]
         IN  IF got.threw
             THEN /\ pc' = [pc EXCEPT ![r] = "rejected"]
                  /\ error' = [error EXCEPT ![r] = got.error]
                  /\ UNCHANGED <<scope, res, calls>>
             ELSE IF req[r].method # "GET" /\ req[r].method # "POST"
             THEN /\ pc' = [pc EXCEPT ![r] = "rejected"]
                  /\ error' = [error EXCEPT ![r] = MethodNotAllowed]
                  /\ scope' = [scope EXCEPT ![Scope(r)] = sc]
                  /\ res' = [res EXCEPT ![r] = SetHeader(@, "Allow", "GET, POST")]
                  /\ UNCHANGED calls
             ELSE /\ pc' = [pc EXCEPT ![r] = "parseBody"]
                  /\ scope' = [scope EXCEPT ![Scope(r)] = sc]
                  /\ calls' = [calls EXCEPT ![r] = Append(@, Call("parseBody", sc, ""))]
                  /\ UNCHANGED <<error, res>>
    /\ UNCHANGED <<options, mw, req, data, result>>

\* what parseBody answered is noted on its call
Answered(cs, ret) == [cs EXCEPT ![Len(cs)].ret = ret]

\* the promise is resolved whatever parseBody reports
ParseBodyCallbackIgnoresError(r) ==
    /\ pc[r] = "parseBody"
    /\ \/ \E parseError \in ParseErrors :
            /\ pc' = [pc EXCEPT ![r] = "resolved"]
            /\ data' = [data EXCEPT ![r] = EmptyObject]
            /\ calls' = [calls EXCEPT ![r] = Answered(@, "parseError")]
            /\ UNCHANGED error
       \/ \E d \in Bodies \cup {Undefined} :
            /\ pc' = [pc EXCEPT ![r] = "resolved"]
            /\ data' = [data EXCEPT ![r] = IF d = Undefined THEN EmptyObject ELSE d]
            /\ calls' = [calls EXCEPT ![r] = Answered(@, "data")]
            /\ UNCHANGED error
    /\ UNCHANGED <<options, mw, req, scope, result, res>>

\* the callback given to parseBody, lines 84-86
ParseBodyCallback(r) ==
    /\ pc[r] = "parseBody"
    /\ \/ \E parseError \in ParseErrors :
            /\ pc' = [pc EXCEPT ![r] = "rejected"]
            /\ error' = [error EXCEPT ![r] = parseError]
            /\ calls' = [calls EXCEPT ![r] = Answered(@, "parseError")]
            /\ UNCHANGED data
       \/ \E d \in Bodies \cup {Undefined} :
            /\ pc' = [pc EXCEPT ![r] = "resolved"]
            /\ data' = [data EXCEPT ![r] = IF d = Undefined THEN EmptyObject ELSE d]
            /\ calls' = [calls EXCEPT ![r] = Answered(@, "data")]
            /\ UNCHANGED error
    /\ UNCHANGED <<options, mw, req, scope, result, res>>

\* the first then callback, lines 87-161
Then(r) ==
    /\ pc[r] = "resolved"
    /\ \E syn \in SyntaxOutcomes, nval \in 0..MaxValidationErrors,
          op \in Operations, ex \in ExecuteOutcomes :
         LET out == ThenStage(req[r], data[r], scope[Scope(r)], res[r], calls[r],
                              syn, nval, op, ex)
         IN  /\ scope' = [scope EXCEPT ![Scope(r)] = out.scope]
             /\ res' = [res EXCEPT ![r] = out.res]
             /\ calls' = [calls EXCEPT ![r] = out.calls]
             /\ result' = [result EXCEPT ![r] = out.result]
             /\ error' = [error EXCEPT ![r] = out.error]
             /\ pc' = [pc EXCEPT ![r] = CASE out.kind = "return"  -> "settled"
                                          [] out.kind = "throw"   -> "rejected"
                                          [] out.kind = "promise" -> "executing"]
    /\ UNCHANGED <<options, mw, req, data>>

\* the promise returned by execute settles
ExecuteSettles(r) ==
    /\ pc[r] = "executing"
    /\ \E e \in Executions :
         /\ pc' = [pc EXCEPT ![r] = IF e.rejected THEN "rejected" ELSE "settled"]
         /\ result' = [result EXCEPT ![r] = e.value]
         /\ error' = [error EXCEPT ![r] = e.error]
    /\ UNCHANGED <<options, mw, req, scope, data, res, calls>>

\* the catch callback, lines 162-166
Catch(r) ==
    /\ pc[r] = "rejected"
    /\ LET out == CatchStage(res[r], error[r])
       IN  /\ res' = [res EXCEPT ![r] = out.res]
           /\ result' = [result EXCEPT ![r] = out.result]
    /\ pc' = [pc EXCEPT ![r] = "settled"]
    /\ UNCHANGED <<options, mw, req, scope, data, error, calls>>

\* the last then callback, lines 166-181
Response(r) ==
    /\ pc[r] = "settled"
    /\ LET formatted == FormatErrors(result[r])
       IN  /\ result' = [result EXCEPT ![r] = formatted]
           /\ res' = [res EXCEPT ![r] = Respond(scope[Scope(r)], @, formatted)]
    /\ pc' = [pc EXCEPT ![r] = "done"]
    /\ UNCHANGED <<options, mw, req, scope, data, error, calls>>

NextFor(arriving) ==
    \/ Construct
    \/ \E r \in arriving :
         \/ Handle(r)
         \/ ParseBodyCallback(r)
         \/ Then(r)
         \/ ExecuteSettles(r)
         \/ Catch(r)
         \/ Response(r)

Init == InitFor({1})
Next == NextFor({1})
Spec == Init /\ [][Next]_vars

----------------------------------------------------------------------------
(* Properties of the handler *)

Done(r) == pc[r] = "done"

\* getOptions returned: line 72 has stored the schema
OptionsResolved(r) == Truthy(scope[Scope(r)].schema)

\* parseBody called back with data
BodyDecoded(r) ==
    \E i \in DOMAIN calls[r] :
        calls[r][i].fn = "parseBody" /\ calls[r][i].ret = "data"

\* a string JSON.parse rejects
InvalidJsonString(v) == v.type = "string" /\ JSONParse(v.val).threw

\* getOperationAST answered with an operation of this kind
Resolved(r, kind) ==
    \E i \in DOMAIN calls[r] :
        calls[r][i].fn = "getOperationAST" /\ calls[r][i].ret = kind

\* the response carries exactly this one error message
OnlyError(r, msg) == res[r].body.errors = <<msg>>

\* C1, as stated: every request whose method is neither GET nor POST is
\* answered with status 405 and Allow: GET, POST.
C1_AsStated ==
    \A r \in Reqs :
        Done(r) /\ req[r].method \notin {"GET", "POST"}
            => res[r].statusCode = 405 /\ res[r].allow = "GET, POST"

\* C1, amended: every request whose method is neither GET nor POST, and for
\* which getOptions returned an options object with a schema, is answered with
\* status 405 and Allow: GET, POST.
C1_MethodNotAllowed ==
    \A r \in Reqs :
        Done(r) /\ req[r].method \notin {"GET", "POST"} /\ OptionsResolved(r)
            => res[r].statusCode = 405 /\ res[r].allow = "GET, POST"

C1_Witness ==
    \E r \in Reqs :
        /\ Done(r) /\ req[r].method = "PUT" /\ OptionsResolved(r)
        /\ res[r].statusCode = 405

\* C2: a GET request whose operation getOperationAST resolves to a mutation or
\* a subscription, with the graphiql option off, is answered with status 405,
\* Allow: POST, and one error whose message names that operation kind.
C2_NonQueryOnGet ==
    \A r \in Reqs : \A kind \in {"mutation", "subscription"} :
        /\ Done(r) /\ req[r].method = "GET" /\ Resolved(r, kind)
        /\ ~Truthy(scope[Scope(r)].graphiql)
        => /\ res[r].statusCode = 405
           /\ res[r].allow = "POST"
           /\ Len(res[r].body.errors) = 1
           /\ \E j \in DOMAIN res[r].body.errors[1] : res[r].body.errors[1][j] = kind

C2_Witness ==
    \E r \in Reqs :
        /\ Done(r) /\ req[r].method = "GET" /\ Resolved(r, "subscription")
        /\ ~Truthy(scope[Scope(r)].graphiql)
        /\ res[r].allow = "POST"

\* C3, as stated: every request that carries a string `variables` value that is
\* not valid JSON (in the query-string or in the body) is answered with status
\* 400 and the one error 'Variables are invalid JSON.'.
C3_AsStated ==
    \A r \in Reqs :
        /\ Done(r) /\ OptionsResolved(r)
        /\ \/ InvalidJsonString(req[r].query.variables)
           \/ BodyDecoded(r) /\ InvalidJsonString(data[r].variables)
        => /\ res[r].statusCode = 400
           /\ OnlyError(r, InvalidVariables.message)

\* C3, amended: every GET or POST request whose options resolve and whose body
\* is decoded, and whose variables value in use (the query-string's when it is
\* not empty, else the body's) is a non-empty string that is not valid JSON, is
\* answered with status 400 and the one error 'Variables are invalid JSON.'.
C3_InvalidVariables ==
    \A r \in Reqs :
        LET given == Or(req[r].query.variables, data[r].variables)
        IN  /\ Done(r) /\ BodyDecoded(r)
            /\ given.val # "" /\ InvalidJsonString(given)
            => /\ res[r].statusCode = 400
               /\ OnlyError(r, <<"Variables are invalid JSON.">>)

C3_Witness ==
    \E r \in Reqs :
        /\ Done(r) /\ BodyDecoded(r)
        /\ req[r].query.variables = Str("")
        /\ InvalidJsonString(data[r].variables)
        /\ res[r].statusCode = 400

----------------------------------------------------------------------------

\* neither the query-string nor the body gives a non-empty query
EmptyQuery(r) == ~Truthy(Or(req[r].query.query, data[r].query))

\* the variables value in use is a string JSON.parse rejects
UnparsableVariables(r) ==
    LET given == Or(req[r].query.variables, data[r].variables)
    IN  given.val # "" /\ InvalidJsonString(given)

NoRawFlag(r) == req[r].query.raw = Undefined /\ data[r].raw = Undefined

\* the response is the GraphiQL page, rendered with result = null
NullPage(r) ==
    /\ res[r].contentType = "text/html"
    /\ res[r].body.type = "html"
    /\ res[r].body.isNull

\* C4, as stated: every request with an empty query, the graphiql option on
\* and an Accept header that prefers HTML is answered with status 200 and the
\* GraphiQL page rendered with result = null.
C4_AsStated ==
    \A r \in Reqs :
        /\ Done(r) /\ EmptyQuery(r)
        /\ Truthy(scope[Scope(r)].graphiql) /\ req[r].prefers = "html"
        => res[r].statusCode = 200 /\ NullPage(r)

\* C4, amended: every GET or POST request whose body is decoded, that has no
\* `raw` flag in the query-string or the body and no variables string that
\* fails to parse, with an empty query, the graphiql option on and an Accept
\* header that prefers HTML, is answered with status 200 and the GraphiQL page
\* rendered with result = null.
C4_EmptyQueryPage ==
    \A r \in Reqs :
        /\ Done(r) /\ BodyDecoded(r) /\ EmptyQuery(r)
        /\ NoRawFlag(r) /\ ~UnparsableVariables(r)
        /\ Truthy(scope[Scope(r)].graphiql) /\ req[r].prefers = "html"
        => res[r].statusCode = 200 /\ NullPage(r)

C4_Witness ==
    \E r \in Reqs :
        /\ Done(r) /\ BodyDecoded(r) /\ EmptyQuery(r)
        /\ NoRawFlag(r) /\ ~UnparsableVariables(r)
        /\ Truthy(scope[Scope(r)].graphiql) /\ req[r].prefers = "html"
        /\ req[r].method = "POST"
        /\ NullPage(r)

\* C5, as stated: every request with an empty query and the graphiql option
\* off is answered with status 400 and the error 'Must provide query string.'.
C5_AsStated ==
    \A r \in Reqs :
        /\ Done(r) /\ OptionsResolved(r) /\ EmptyQuery(r)
        /\ ~Truthy(scope[Scope(r)].graphiql)
        => /\ res[r].statusCode = 400
           /\ OnlyError(r, <<"Must provide query string.">>)

\* C5, amended: every GET or POST request whose body is decoded and whose
\* variables, if a string, parse, with an empty query and the graphiql option
\* off, is answered with status 400 and the error 'Must provide query string.'.
C5_EmptyQueryError ==
    \A r \in Reqs :
        /\ Done(r) /\ BodyDecoded(r) /\ EmptyQuery(r)
        /\ ~UnparsableVariables(r)
        /\ ~Truthy(scope[Scope(r)].graphiql)
        => /\ res[r].statusCode = 400
           /\ OnlyError(r, <<"Must provide query string.">>)

C5_Witness ==
    \E r \in Reqs :
        /\ Done(r) /\ BodyDecoded(r) /\ EmptyQuery(r)
        /\ ~UnparsableVariables(r)
        /\ scope[Scope(r)].graphiql = False
        /\ req[r].prefers = "html"
        /\ res[r].statusCode = 400

\* how often res.statusCode was assigned
StatusWrites(r) ==
    Cardinality({i \in DOMAIN res[r].writes : res[r].writes[i] = "statusCode"})

\* C6: within a request, res.statusCode is 200 until assigned and is assigned
\* at most once: no stage overwrites a status an earlier stage has set.
C6_StatusSetOnce ==
    \A r \in Reqs :
        /\ StatusWrites(r) <= 1
        /\ StatusWrites(r) = 0 => res[r].statusCode = 200

C6_Witness ==
    \E r \in Reqs :
        /\ Done(r) /\ StatusWrites(r) = 1 /\ res[r].statusCode = 400
        /\ calls[r][Len(calls[r])].fn = "execute"
        /\ calls[r][Len(calls[r])].ret = "contextError"

----------------------------------------------------------------------------

\* the then callback has run line 88
Negotiated(r) == BodyDecoded(r) /\ pc[r] # "resolved"

MayShowGraphiQL(r) ==
    /\ Truthy(scope[Scope(r)].graphiql)
    /\ NoRawFlag(r)
    /\ req[r].prefers = "html"

\* C7: showGraphiQL is true only if the graphiql option is on, neither the
\* query-string nor the body has a `raw` property, and accepts prefers html
\* over json; in every other case it is false or undefined. Once line 88 has
\* run it is true exactly in that case.
C7_ShowGraphiQL ==
    \A r \in Reqs :
        LET show == scope[Scope(r)].showGraphiQL
        IN  /\ show \in {True, False, Undefined}
            /\ show = True => MayShowGraphiQL(r)
            /\ Negotiated(r) => (show = True <=> MayShowGraphiQL(r))

C7_Witness ==
    \E r \in Reqs :
        /\ Negotiated(r) /\ scope[Scope(r)].showGraphiQL = True
        /\ MayShowGraphiQL(r)

\* positions of a write in the response
Writes(r, what) == {i \in DOMAIN res[r].writes : res[r].writes[i] = what}

\* C8: whenever a response is written, content-type has been set exactly once
\* and before the body; it is text/html with the page renderGraphiQL makes of
\* query, variables and result when showGraphiQL is true, and application/json
\* with the serialized result otherwise; the status code is never assigned
\* after the body is written.
C8_OneContentType ==
    \A r \in Reqs :
        res[r].ended =>
            /\ Cardinality(Writes(r, "setHeader content-type")) = 1
            /\ Cardinality(Writes(r, "end")) = 1
            /\ \A i \in Writes(r, "setHeader content-type") \cup Writes(r, "statusCode") :
                   \A j \in Writes(r, "end") : i < j
            /\ IF Truthy(scope[Scope(r)].showGraphiQL)
               THEN /\ res[r].contentType = "text/html"
                    /\ res[r].body = RenderGraphiQL(scope[Scope(r)].query,
                                                    scope[Scope(r)].variables, result[r])
               ELSE /\ res[r].contentType = "application/json"
                    /\ res[r].body.type = "json"
                    /\ res[r].body.isNull = result[r].isNull
                    /\ res[r].body.data = result[r].data
                    /\ res[r].body.errors = Messages(result[r].errors)

C8_Witness ==
    \E r \in Reqs :
        /\ res[r].ended /\ Truthy(scope[Scope(r)].showGraphiQL)
        /\ res[r].contentType = "text/html"
        /\ res[r].statusCode = 400
        /\ res[r].body.query = Str("{ body }")

\* C10, as stated: a configuration error is never turned into a response by
\* the request handler.
C10_AsStated ==
    \A r \in Reqs : res[r].ended => OptionsResolved(r)

ConfigurationErrors ==
    { <<"GraphQL middleware option function must return an options object.">>,
      <<"GraphQL middleware options must contain a schema.">> }

\* C10, amended: graphqlHTTP throws, before any request is served, only when
\* `options` itself is falsy. An options value (given, or returned by the
\* options function) that is not an object or has no schema is found by
\* getOptions in each request's promise executor, caught by the catch stage
\* and answered with status 500 and a JSON body carrying that one error; no
\* collaborator is called for that request.
C10_ConfigurationError ==
    /\ mw = "threw" => ~Truthy(options) /\ \A r \in Reqs : pc[r] = "idle"
    /\ mw = "ready" => Truthy(options)
    /\ \A r \in Reqs :
           Done(r) /\ ~OptionsResolved(r)
               => /\ res[r].statusCode = 500
                  /\ res[r].contentType = "application/json"
                  /\ Len(res[r].body.errors) = 1
                  /\ res[r].body.errors[1] \in ConfigurationErrors
                  /\ calls[r] = <<>>

C10_Witness ==
    \E r \in Reqs :
        /\ Done(r) /\ ~OptionsResolved(r)
        /\ options.type = "function"
        /\ res[r].statusCode = 500
        /\ OnlyError(r, <<"GraphQL middleware options must contain a schema.">>)

----------------------------------------------------------------------------
(* getGraphQLParams on every pairing of a query-string with a decoded body *)

AnyUrls ==
    { Params(q, v, o, w) : q \in UrlQueries \cup {Str("")}, v \in UrlVariables,
                           o \in UrlOperationNames \cup {Str(""), Str("UrlOp")},
                           w \in UrlRaws }
AnyBodies ==
    { Params(q, v, o, w) : q \in BodyQueries \cup {Str("")},
                           v \in BodyVariables \cup {Str("{\"id\":2}")},
                           o \in BodyOperationNames, w \in BodyRaws }

\* a POST request whose body has just been decoded
InitParams ==
    /\ options = OptionsObj(Schema, Undefined, Undefined, Undefined)
    /\ mw = "ready"
    /\ \E u \in AnyUrls :
         req = [r \in Reqs |-> IF r = 1 THEN Request("POST", u, "json") ELSE NoRequest]
    /\ \E d \in AnyBodies :
         data = [r \in Reqs |-> IF r = 1 THEN d ELSE EmptyObject]
    /\ pc = [r \in Reqs |-> IF r = 1 THEN "resolved" ELSE "idle"]
    /\ scope = [r \in Reqs |-> IF r = 1 THEN [FreshScope EXCEPT !.schema = Schema]
                                        ELSE FreshScope]
    /\ error = [r \in Reqs |-> NoError]
    /\ result = [r \in Reqs |-> NoResult]
    /\ res = [r \in Reqs |-> NewResponse]
    /\ calls = [r \in Reqs |-> IF r = 1
                               THEN <<Call("parseBody", FreshScope, "data")>>
                               ELSE <<>>]

\* lines 90-94
ExtractParams(r) ==
    /\ pc[r] = "resolved"
    /\ LET params == GetGraphQLParams(req[r], data[r])
       IN  IF params.threw
           THEN /\ pc' = [pc EXCEPT ![r] = "rejected"]
                /\ error' = [error EXCEPT ![r] = params.error]
                /\ UNCHANGED scope
           ELSE /\ pc' = [pc EXCEPT ![r] = "extracted"]
                /\ scope' = [scope EXCEPT ![Scope(r)] =
                                [@ EXCEPT !.query = params.query,
                                          !.variables = params.variables,
                                          !.operationName = params.operationName]]
                /\ UNCHANGED error
    /\ UNCHANGED <<options, mw, req, data, result, res, calls>>

NextParams == \E r \in {1} : ExtractParams(r)

SpecParams == InitParams /\ [][NextParams]_vars

ParamNames == {"query", "variables", "operationName"}

\* what a supplied value becomes: a variables string is read as JSON
Supplied(name, v) ==
    IF name = "variables" /\ Truthy(v) /\ v.type = "string"
    THEN JSONParse(v.val).value
    ELSE v

\* C9, as stated: for each of query, variables and operationName, whenever
\* both the query-string and the body supply the parameter, the extracted value
\* is the query-string's.
C9_AsStated ==
    \A r \in Reqs : \A name \in ParamNames :
        /\ pc[r] = "extracted"
        /\ req[r].query[name] # Undefined /\ data[r][name] # Undefined
        => scope[Scope(r)][name] = Supplied(name, req[r].query[name])

\* C9, amended: for each of query, variables and operationName, whenever the
\* query-string value is a non-empty string the extracted value is the
\* query-string's (for variables, its JSON reading), also when the body
\* supplies one too; the body's value is used when the query-string value is
\* absent or the empty string.
C9_UrlWins ==
    \A r \in Reqs : \A name \in ParamNames :
        pc[r] = "extracted" =>
            IF Truthy(req[r].query[name])
            THEN scope[Scope(r)][name] = Supplied(name, req[r].query[name])
            ELSE scope[Scope(r)][name] = Supplied(name, data[r][name])

C9_Witness ==
    \E r \in Reqs :
        /\ pc[r] = "extracted"
        /\ \A name \in ParamNames :
               /\ Truthy(req[r].query[name]) /\ Truthy(data[r][name])
               /\ Supplied(name, data[r][name]) # Supplied(name, req[r].query[name])
               /\ scope[Scope(r)][name] = Supplied(name, req[r].query[name])

----------------------------------------------------------------------------
(* Two requests in flight at once *)

\* a GET with its query and variables in the query-string, asking for html,
\* and a POST that has everything in its body, asking for json; the graphiql
\* option is on
InitConcurrent ==
    /\ options = OptionsObj(Schema, Undefined, Undefined, True)
    /\ mw = "new"
    /\ req = [r \in Reqs |->
                IF r = 1
                THEN Request("GET", Params(Str("{ url }"), Str("{ \"id\": 1 }"),
                                           Undefined, Undefined), "html")
                ELSE Request("POST", EmptyObject, "json")]
    /\ pc = [r \in Reqs |-> "idle"]
    /\ scope = [r \in Reqs |-> FreshScope]
    /\ data = [r \in Reqs |-> EmptyObject]
    /\ error = [r \in Reqs |-> NoError]
    /\ result = [r \in Reqs |-> NoResult]
    /\ res = [r \in Reqs |-> NewResponse]
    /\ calls = [r \in Reqs |-> <<>>]

NextConcurrent == NextFor(Reqs)

SpecConcurrent == InitConcurrent /\ [][NextConcurrent]_vars

\* what getGraphQLParams extracts from the request's own query-string and body
Own(r) == GetGraphQLParams(req[r], data[r])

ExecuteCalls(r) == {i \in DOMAIN calls[r] : calls[r][i].fn = "execute"}

\* C11: with two requests interleaved at the body decode and at the execution,
\* every execute call of a request is given that request's own query,
\* variables and operationName, and its response is the page exactly when its
\* body was decoded and its own graphiql, raw and Accept allow it, rendered
\* with its own query and variables.
C11_Isolation ==
    \A r \in Reqs :
        /\ \A i \in ExecuteCalls(r) :
               /\ ~Own(r).threw
               /\ calls[r][i].query = Own(r).query
               /\ calls[r][i].variables = Own(r).variables
               /\ calls[r][i].operationName = Own(r).operationName
        /\ Done(r) =>
               /\ res[r].body.type = "html" <=> BodyDecoded(r) /\ MayShowGraphiQL(r)
               /\ res[r].body.type = "html" /\ BodyDecoded(r) /\ ~Own(r).threw
                      => /\ res[r].body.query = Own(r).query
                         /\ res[r].body.variables = Own(r).variables

\* both requests are suspended in execute, with different variables
C11_Witness ==
    /\ pc[1] = "executing" /\ pc[2] = "executing"
    /\ \E i \in ExecuteCalls(1) : \E j \in ExecuteCalls(2) :
           /\ calls[1][i].variables = Obj("id=1")
           /\ calls[2][j].variables = Obj("id=3")

----------------------------------------------------------------------------

\* the chain has passed the catch stage
Settled(r) == pc[r] \in {"settled", "done"}

\* a rejection went through the catch callback
Caught(r) == Settled(r) /\ error[r] # NoError

\* C12: a failure caught by the catch stage gets the status it carries, or 500
\* when it carries none; a failure returned by the parse, validate or execute
\* stage (a result of errors without data) has a status already; no such
\* response has status 200.
C12_FailureStatus ==
    \A r \in Reqs :
        /\ Caught(r) =>
               /\ res[r].statusCode = IF error[r].status # 0 THEN error[r].status ELSE 500
               /\ Messages(result[r].errors) = <<error[r].message>>
        /\ Settled(r) /\ result[r].hasErrors /\ ~result[r].hasData =>
               res[r].statusCode # 200

C12_Witness ==
    \E r \in Reqs :
        /\ Done(r) /\ Caught(r)
        /\ error[r] = Err(<<"resolver crashed">>, 0)
        /\ res[r].statusCode = 500

\* C13: on a GET whose operation getOperationAST resolves to a mutation or a
\* subscription, execute is never called: the response is the page with a null
\* result and status 200 when showGraphiQL is true, and status 405 otherwise.
\* On a GET execute is called only after getOperationAST answered null or a
\* query.
C13_NoMutationOnGet ==
    \A r \in Reqs :
        req[r].method = "GET" =>
            /\ \A kind \in {"mutation", "subscription"} :
                   Resolved(r, kind) =>
                       /\ ExecuteCalls(r) = {}
                       /\ Done(r) =>
                              IF Truthy(scope[Scope(r)].showGraphiQL)
                              THEN res[r].statusCode = 200 /\ NullPage(r)
                              ELSE res[r].statusCode = 405
            /\ ExecuteCalls(r) # {} => Resolved(r, "query") \/ Resolved(r, "null")

C13_Witness ==
    \E r \in Reqs :
        /\ Done(r) /\ req[r].method = "GET" /\ Resolved(r, "mutation")
        /\ Truthy(scope[Scope(r)].showGraphiQL)
        /\ NullPage(r)

----------------------------------------------------------------------------

\* the collaborators in the order the chain calls them
StageOrder(method) ==
    IF method = "GET"
    THEN <<"parseBody", "parse", "validate", "getOperationAST", "execute">>
    ELSE <<"parseBody", "parse", "validate", "execute">>

\* the answers after which the next stage runs
Continues(call) ==
    CASE call.fn = "parseBody"       -> call.ret = "data"
      [] call.fn = "parse"           -> call.ret = "document"
      [] call.fn = "validate"        -> call.ret = "0"
      [] call.fn = "getOperationAST" -> call.ret \in {"null", "query"}
      [] OTHER                       -> FALSE

\* C14: within a request the collaborators are called in the order parseBody,
\* parse, validate, getOperationAST (on a GET), execute, each at most once and
\* none skipped; a stage runs only if every stage before it let the chain
\* continue (the body decoded, the document parsed, no validation error, the
\* operation null or a query); parseBody is called only once the options are
\* resolved and the method is GET or POST, and parse only once the parameters
\* are extracted and the query is not empty.
C14_StageOrder ==
    \A r \in Reqs :
        LET cs == calls[r]
            order == StageOrder(req[r].method)
        IN  /\ Len(cs) <= Len(order)
            /\ \A i \in DOMAIN cs : cs[i].fn = order[i]
            /\ \A i \in DOMAIN cs : i < Len(cs) => Continues(cs[i])
            /\ cs # <<>> => OptionsResolved(r) /\ req[r].method \in {"GET", "POST"}
            /\ Len(cs) > 1 => ~Own(r).threw /\ ~EmptyQuery(r)

C14_Witness ==
    \E r \in Reqs :
        /\ Done(r) /\ req[r].method = "GET"
        /\ Len(calls[r]) = 5
        /\ res[r].statusCode = 200

\* parseBody called back with an error
DecodeFailed(r) ==
    \E i \in DOMAIN calls[r] :
        calls[r][i].fn = "parseBody" /\ calls[r][i].ret = "parseError"

\* C15: when parseBody reports an error, no parameter is extracted and parse,
\* validate and execute are not called; the response carries that one error
\* with the error's own status, or 500 when it has none, and is JSON, never the
\* page.
C15_DecodeFailure ==
    \A r \in Reqs :
        DecodeFailed(r) =>
            /\ Len(calls[r]) = 1
            /\ error[r] \in ParseErrors
            /\ scope[Scope(r)].showGraphiQL = Undefined
            /\ scope[Scope(r)].query = Undefined
            /\ scope[Scope(r)].variables = Undefined
            /\ Done(r) =>
                   /\ res[r].statusCode = IF error[r].status # 0 THEN error[r].status ELSE 500
                   /\ OnlyError(r, error[r].message)
                   /\ res[r].contentType = "application/json"
                   /\ res[r].body.type = "json"

C15_Witness ==
    \E r \in Reqs :
        /\ Done(r) /\ DecodeFailed(r)
        /\ Truthy(scope[Scope(r)].graphiql) /\ req[r].prefers = "html"
        /\ req[r].query.raw = Undefined
        /\ res[r].statusCode = 500
        /\ res[r].body.type = "json"

\* the answer of the execute call, if execute was called
Executed(r, ret) ==
    \E i \in ExecuteCalls(r) : calls[r][i].ret = ret

\* C16: a context error thrown by execute gives status 400 with that one
\* error; a result the promise of execute resolves to, also one with errors
\* beside its data, leaves the status at 200; a rejection of that promise is
\* handled by the catch stage: the status it carries, or 500.
C16_ExecuteOutcomes ==
    \A r \in Reqs :
        Done(r) =>
            /\ Executed(r, "contextError") =>
                   /\ res[r].statusCode = 400
                   /\ OnlyError(r, ContextError.message)
            /\ Executed(r, "promise") /\ error[r] = NoError =>
                   /\ res[r].statusCode = 200
                   /\ res[r].body.hasData
            /\ Executed(r, "promise") /\ error[r] # NoError =>
                   /\ res[r].statusCode = IF error[r].status # 0 THEN error[r].status ELSE 500
                   /\ OnlyError(r, error[r].message)

C16_Witness ==
    \E r \in Reqs :
        /\ Done(r) /\ Executed(r, "promise")
        /\ res[r].body.hasData /\ res[r].body.errors # <<>>
        /\ res[r].statusCode = 200

----------------------------------------------------------------------------
(* Progress: the callbacks of a promise chain are run once they are due;   *)
(* parseBody calls back and the promise of execute settles.                *)

Fairness ==
    \A r \in {1} :
        /\ WF_vars(ParseBodyCallback(r))
        /\ WF_vars(Then(r))
        /\ WF_vars(ExecuteSettles(r))
        /\ WF_vars(Catch(r))
        /\ WF_vars(Response(r))

\* the options are a function of the request (it may return any options
\* value); the request has at most a query in its query-string
InitLive ==
    /\ options = NonObject(Function)
    /\ mw = "new"
    /\ \E m \in Methods, q \in UrlQueries, a \in {"html", "json"} :
         req = [r \in Reqs |->
                  IF r = 1
                  THEN Request(m, Params(q, Undefined, Undefined, Undefined), a)
                  ELSE NoRequest]
    /\ pc = [r \in Reqs |-> "idle"]
    /\ scope = [r \in Reqs |-> FreshScope]
    /\ data = [r \in Reqs |-> EmptyObject]
    /\ error = [r \in Reqs |-> NoError]
    /\ result = [r \in Reqs |-> NoResult]
    /\ res = [r \in Reqs |-> NewResponse]
    /\ calls = [r \in Reqs |-> <<>>]

SpecLive == InitLive /\ [][Next]_vars /\ Fairness

\* the handler has been called for the request
Entered(r) == pc[r] # "idle"

\* C17: every request that has entered the handler eventually has its response
\* ended, and res.end is never called twice, given that parseBody calls back
\* and the promise of execute settles.
C17_RespondsOnce ==
    \A r \in Reqs :
        /\ [](Cardinality(Writes(r, "end")) <= 1)
        /\ Entered(r) ~> (res[r].ended /\ Cardinality(Writes(r, "end")) = 1)

C17_Witness ==
    \E r \in Reqs :
        /\ Entered(r) /\ res[r].ended
        /\ Cardinality(Writes(r, "end")) = 1
        /\ Executed(r, "promise")
        /\ Truthy(scope[Scope(r)].showGraphiQL)

----------------------------------------------------------------------------

\* C18: the result handed to the response stage is null only when showGraphiQL
\* is true; so a response written as JSON is never the text null: it is an
\* object with data, with errors, or with both.
C18_NoNullJson ==
    \A r \in Reqs :
        /\ Settled(r) /\ result[r].isNull => Truthy(scope[Scope(r)].showGraphiQL)
        /\ res[r].ended /\ res[r].body.type = "json" =>
               /\ ~res[r].body.isNull
               /\ res[r].body.hasData \/ res[r].body.errors # <<>>

C18_Witness ==
    \E r \in Reqs :
        /\ Done(r) /\ result[r].isNull
        /\ EmptyQuery(r)
        /\ res[r].body.type = "html"

\* the Allow header the handler sets, as the claim gives it, for a request
\* whose unsupported method is answered `unsupported`
AllowRule(r, unsupported) ==
    /\ Cardinality(Writes(r, "setHeader Allow")) <= 1
    /\ Done(r) =>
           /\ res[r].allow # "" => res[r].statusCode = 405
           /\ res[r].allow = "GET, POST" <=> unsupported
           /\ res[r].allow = "POST" <=>
                  /\ req[r].method = "GET"
                  /\ Resolved(r, "mutation") \/ Resolved(r, "subscription")
                  /\ ~Truthy(scope[Scope(r)].showGraphiQL)

\* C19, as stated: Allow is set at most once per request and only on responses
\* with status 405: 'GET, POST' exactly when the method is unsupported, 'POST'
\* exactly when a GET resolves to an operation that is not a query and the
\* page will not be shown.
C19_AsStated ==
    \A r \in Reqs : AllowRule(r, req[r].method \notin {"GET", "POST"})

\* C19, amended: as stated, but 'GET, POST' exactly when the method is
\* unsupported and getOptions returned an options object with a schema.
C19_AllowHeader ==
    \A r \in Reqs :
        AllowRule(r, req[r].method \notin {"GET", "POST"} /\ OptionsResolved(r))

C19_Witness ==
    \E r \in Reqs :
        /\ Done(r) /\ res[r].allow = "POST" /\ res[r].statusCode = 405
        /\ Truthy(scope[Scope(r)].graphiql)

====
